---- MODULE Spec2Model ----
(***************************************************************************)
(* Star-schema warehouse build (src/src/load_data.py), the dashboard's     *)
(* first-run build and its query (src/dashboard/app.py), and the monthly   *)
(* outlier detectors (src/src/analyze_sales.py, src/dashboard/app.py).     *)
(*                                                                         *)
(* Text values are sequences of code points, compared as Python compares   *)
(* str.  An empty CSV cell is read by pandas.read_csv as NaN, so the empty *)
(* sequence stands for the missing value.                                  *)
(***************************************************************************)
EXTENDS Integers, Sequences, FiniteSets, TLC

VARIABLES
    raw,          \* sales_df: the raw records read from RAW_FILE
    pc,           \* position of load_data.main / load_to_sqlite
    step,         \* index of the next DROP or INSERT of load_to_sqlite
    dims,         \* the five dimensions built at load_data.py:33-37
    product,      \* dim_product and product_map (load_data.py:39-68)
    result,       \* what transform_to_star_schema returned or raised
    db,           \* sales.db as the open connection sees it
    committed,    \* sales.db as committed on disk
    snapshot,     \* sales.db as it was when the current load started
    loads,        \* number of runs of load_data.main started
    log,          \* the statements the current load has run on sales.db, in order
    complete,     \* whether the last load that opened sales.db ran to completion
    caller,       \* who runs load_data.main: the command line or the dashboard
    dash,         \* what the last dashboard run did after its existence test
    monthly_df,   \* the monthly series handed to the detectors
    threshold,    \* the detectors' threshold, as a fraction num/den
    program,      \* which program calls its detector: analyze_sales or app
    outliers      \* what the detector returned

vars == <<raw, pc, step, dims, product, result, db, committed, snapshot, loads,
          log, complete, caller, dash, monthly_df, threshold, program, outliers>>

etlVars == <<raw, pc, step, dims, product, result, db, committed, snapshot, loads,
             log, complete, caller, dash>>
detVars == <<monthly_df, threshold, program, outliers>>

----------------------------------------------------------------------------
(* Bounds of the explored inputs.                                          *)

MaxRecords == 4
MaxLoadRecords == 2
MaxLoads == 2
MaxMonths == 5

----------------------------------------------------------------------------
(* Text and sequence helpers.                                              *)

NaN == <<>>

isna(v) == v = NaN

Range(s) == {s[i] : i \in 1..Len(s)}

PairsOf(s) == (1..Len(s)) \X (1..Len(s))

Min(a, b) == IF a <= b THEN a ELSE b

\* Python's str.__lt__: lexicographic on code points, a proper prefix first.
StrLess(a, b) ==
    \E i \in 1..(Min(Len(a), Len(b)) + 1) :
        /\ \A j \in 1..(i - 1) : a[j] = b[j]
        /\ \/ i > Len(a) /\ i <= Len(b)
           \/ i <= Len(a) /\ i <= Len(b) /\ a[i] < b[i]

\* Series.dropna(): the non-missing cells, in order.
dropna(s) == SelectSeq(s, LAMBDA v : ~isna(v))

\* unique() / drop_duplicates(): first occurrences, in order of appearance.
drop_duplicates(s) ==
    LET keep == {i \in 1..Len(s) : \A j \in 1..(i - 1) : s[j] # s[i]}
        RECURSIVE take(_)
        take(i) == IF i > Len(s) THEN <<>>
                   ELSE IF i \in keep THEN <<s[i]>> \o take(i + 1)
                   ELSE take(i + 1)
    IN  take(1)

\* sorted(values) / sort_values(): s in ascending order, where before holds
\* the pairs <<i, j>> with s[i] less than s[j]; the callers sort
\* de-duplicated values, so no two elements tie.
SortBy(s, before) ==
    LET n == Len(s)
        rank(i) == Cardinality({j \in 1..n : <<j, i>> \in before}) + 1
    IN  [k \in 1..n |-> s[CHOOSE i \in 1..n : rank(i) = k]]

\* dict(zip(keys, values)): a later pair overrides an earlier one.
dict_zip(keys, values) ==
    [k \in Range(keys) |->
        values[CHOOSE i \in 1..Len(keys) :
                  /\ keys[i] = k
                  /\ \A j \in (i + 1)..Len(keys) : keys[j] # k]]

\* Mutant: Series.map(dict).fillna(0), a missing key defaulted to 0.
map_fillna(s, d) ==
    [i \in 1..Len(s) |-> IF s[i] \in DOMAIN d THEN <<d[s[i]]>> ELSE <<0>>]

\* Series.map(dict): a cell without a key in the dict becomes NaN.  A mapped
\* cell is <<key>>, a NaN cell is <<>>.
map(s, d) ==
    [i \in 1..Len(s) |-> IF s[i] \in DOMAIN d THEN <<d[s[i]]>> ELSE <<>>]

\* Series.astype(int) raises on a NaN cell: it has a value only without one.
can_astype_int(s) == \A i \in 1..Len(s) : s[i] # <<>>
astype_int(s) == [i \in 1..Len(s) |-> s[i][1]]

----------------------------------------------------------------------------
(* Dates: "%Y-%m-%d" text, parsed and formatted digit by digit.            *)

Digit(c) == c - 48
Dash == 45

RECURSIVE ParseInt(_)
ParseInt(s) ==
    IF s = <<>> THEN 0
    ELSE 10 * ParseInt(SubSeq(s, 1, Len(s) - 1)) + Digit(s[Len(s)])

RECURSIVE Pad(_, _)
Pad(n, width) ==
    IF width = 0 THEN <<>> ELSE Pad(n \div 10, width - 1) \o <<48 + (n % 10)>>

RECURSIVE Str(_)
Str(n) == IF n < 10 THEN <<48 + n>> ELSE Str(n \div 10) \o <<48 + (n % 10)>>

FirstDash(s) == CHOOSE i \in 1..Len(s) : s[i] = Dash /\ \A j \in 1..(i - 1) : s[j] # Dash

\* pd.to_datetime on a year-month-day text; a field may lack its leading zero.
to_datetime(s) ==
    LET i    == FirstDash(s)
        rest == SubSeq(s, i + 1, Len(s))
        j    == FirstDash(rest)
    IN  [year  |-> ParseInt(SubSeq(s, 1, i - 1)),
         month |-> ParseInt(SubSeq(rest, 1, j - 1)),
         day   |-> ParseInt(SubSeq(rest, j + 1, Len(rest)))]

TsLess(a, b) ==
    \/ a.year < b.year
    \/ a.year = b.year /\ a.month < b.month
    \/ a.year = b.year /\ a.month = b.month /\ a.day < b.day

\* Mutant: "%Y%-m%-d", month and day without their leading zero.
strftime_Ymd_unpadded(t) == Pad(t.year, 4) \o Str(t.month) \o Str(t.day)

strftime_Ymd(t) == Pad(t.year, 4) \o Pad(t.month, 2) \o Pad(t.day, 2)
strftime_Y_m_d(t) ==
    Pad(t.year, 4) \o <<Dash>> \o Pad(t.month, 2) \o <<Dash>> \o Pad(t.day, 2)

MonthAbbr ==
    << <<74, 97, 110>>, <<70, 101, 98>>, <<77, 97, 114>>, <<65, 112, 114>>,
       <<77, 97, 121>>, <<74, 117, 110>>, <<74, 117, 108>>, <<65, 117, 103>>,
       <<83, 101, 112>>, <<79, 99, 116>>, <<78, 111, 118>>, <<68, 101, 99>> >>
strftime_b(t) == MonthAbbr[t.month]

dt_quarter(t) == ((t.month - 1) \div 3) + 1

----------------------------------------------------------------------------
(* load_data.py: the transform.  A data frame is a sequence of rows; a row *)
(* is a record of its columns.  Of the seven measure columns, which are    *)
(* all copied through alike, the model keeps net_revenue.                  *)

Column(df, name) == [i \in 1..Len(df) |-> df[i][name]]

\* Mutant: the missing values are not dropped.
build_dimension_keepna(source, id_col, name_col) ==
    LET unique == drop_duplicates(source)
        values == SortBy(unique, {ij \in PairsOf(unique) : StrLess(unique[ij[1]], unique[ij[2]])})
    IN  [i \in 1..Len(values) |->
            [c \in {id_col, name_col} |-> IF c = id_col THEN i ELSE values[i]]]

\* Mutant: range(len(values)), keys counted from 0.
build_dimension_from_zero(source, id_col, name_col) ==
    LET unique == drop_duplicates(dropna(source))
        values == SortBy(unique, {ij \in PairsOf(unique) : StrLess(unique[ij[1]], unique[ij[2]])})
    IN  [i \in 1..Len(values) |->
            [c \in {id_col, name_col} |-> IF c = id_col THEN i - 1 ELSE values[i]]]

build_dimension(source, id_col, name_col) ==
    LET unique == drop_duplicates(dropna(source))
        values == SortBy(unique, {ij \in PairsOf(unique) : StrLess(unique[ij[1]], unique[ij[2]])})
    IN  [i \in 1..Len(values) |->
            [c \in {id_col, name_col} |-> IF c = id_col THEN i ELSE values[i]]]

create_dim_date(df) ==
    LET parsed      == [i \in 1..Len(df) |-> to_datetime(df[i].order_date)]
        unique      == drop_duplicates(parsed)
        date_values == SortBy(unique, {ij \in PairsOf(unique) : TsLess(unique[ij[1]], unique[ij[2]])})
    IN  [i \in 1..Len(date_values) |->
            LET t == date_values[i]
            IN  [date_id    |-> ParseInt(strftime_Ymd(t)),
                 order_date |-> strftime_Y_m_d(t),
                 year       |-> t.year,
                 month      |-> t.month,
                 month_name |-> strftime_b(t),
                 quarter    |-> <<81>> \o Str(dt_quarter(t))]]

\* load_data.py:33-37
BuildDims(df) ==
    [dim_date     |-> create_dim_date(df),
     dim_region   |-> build_dimension(Column(df, "region"), "region_id", "region_name"),
     dim_channel  |-> build_dimension(Column(df, "channel"), "channel_id", "channel_name"),
     dim_segment  |-> build_dimension(Column(df, "customer_segment"), "segment_id", "segment_name"),
     dim_category |-> build_dimension(Column(df, "category"), "category_id", "category_name")]

\* sort_values(["category", "product_name"]): NaN sorts last.
NaLastLess(a, b) == (~isna(a) /\ isna(b)) \/ (~isna(a) /\ ~isna(b) /\ StrLess(a, b))
\* Mutant: sort_values(["product_name", "category"]).
PairLess_name_first(p, q) ==
    \/ NaLastLess(p.product_name, q.product_name)
    \/ p.product_name = q.product_name /\ NaLastLess(p.category, q.category)

PairLess(p, q) ==
    \/ NaLastLess(p.category, q.category)
    \/ p.category = q.category /\ NaLastLess(p.product_name, q.product_name)

ProductPairs(df) ==
    drop_duplicates([i \in 1..Len(df) |->
        [product_name |-> df[i].product_name, category |-> df[i].category]])

category_map(d) ==
    dict_zip(Column(d.dim_category, "category_name"), Column(d.dim_category, "category_id"))

\* load_data.py:41-49: the sorted pairs, numbered, with the category looked up.
BuildProduct(df, d) ==
    LET pairs    == ProductPairs(df)
        sorted   == SortBy(pairs, {ij \in PairsOf(pairs) : PairLess(pairs[ij[1]], pairs[ij[2]])})
        cat_ids  == map(Column(sorted, "category"), category_map(d))
    IN  IF ~can_astype_int(cat_ids)
        THEN [raised |-> TRUE, dim_product |-> <<>>]
        ELSE [raised |-> FALSE,
              dim_product |->
                [i \in 1..Len(sorted) |->
                    [product_id   |-> i,
                     product_name |-> sorted[i].product_name,
                     category_id  |-> astype_int(cat_ids)[i]]]]

\* load_data.py:57-66: the raw pairs left-merged with dim_product joined to
\* dim_category; a pair without a match keeps a NaN product_id.
product_key_df(df, d, dim_product) ==
    LET left   == ProductPairs(df)
        joined == [i \in 1..Len(dim_product) |->
                     LET hit == {j \in 1..Len(d.dim_category) :
                                   d.dim_category[j].category_id = dim_product[i].category_id}
                     IN  [product_id    |-> dim_product[i].product_id,
                          product_name  |-> dim_product[i].product_name,
                          category_name |-> IF hit = {} THEN NaN
                                            ELSE d.dim_category[CHOOSE j \in hit : TRUE].category_name]]
        RECURSIVE rows(_)
        rows(i) ==
            IF i > Len(left) THEN <<>>
            ELSE LET match == SelectSeq(joined, LAMBDA r :
                                 /\ r.product_name = left[i].product_name
                                 /\ r.category_name = left[i].category)
                 IN  (IF match = <<>>
                      THEN << [product_name |-> left[i].product_name,
                               category     |-> left[i].category,
                               product_id   |-> <<>>] >>
                      ELSE [k \in 1..Len(match) |->
                              [product_name |-> left[i].product_name,
                               category     |-> left[i].category,
                               product_id   |-> <<match[k].product_id>>]])
                     \o rows(i + 1)
    IN  rows(1)

\* Mutant: the product key is looked up by product_name alone.
product_map_by_name(df, d, dim_product) ==
    LET key_df == product_key_df(df, d, dim_product)
        ids    == astype_int(Column(key_df, "product_id"))
    IN  [k \in {<<key_df[i].product_name, key_df[i].category>> : i \in 1..Len(key_df)} |->
            ids[CHOOSE i \in 1..Len(key_df) :
                   /\ key_df[i].product_name = k[1]
                   /\ \A j \in (i + 1)..Len(key_df) : key_df[j].product_name # k[1]]]

\* load_data.py:55,67-68: product_map[(name, category)] = int(product_id).
product_map(df, d, dim_product) ==
    LET key_df == product_key_df(df, d, dim_product)
    IN  dict_zip([i \in 1..Len(key_df) |-> <<key_df[i].product_name, key_df[i].category>>],
                 astype_int(Column(key_df, "product_id")))

product_map_raises(df, d, dim_product) ==
    ~can_astype_int(Column(product_key_df(df, d, dim_product), "product_id"))

date_map(d)    == dict_zip(Column(d.dim_date, "order_date"), Column(d.dim_date, "date_id"))
region_map(d)  == dict_zip(Column(d.dim_region, "region_name"), Column(d.dim_region, "region_id"))
channel_map(d) == dict_zip(Column(d.dim_channel, "channel_name"), Column(d.dim_channel, "channel_id"))
segment_map(d) == dict_zip(Column(d.dim_segment, "segment_name"), Column(d.dim_segment, "segment_id"))

ValueError == [type |-> "ValueError",
               message |-> "Cannot convert non-finite values (NA or inf) to integer"]
KeyError == [type |-> "KeyError", message |-> "(product_name, category)"]
NoError == [type |-> "", message |-> ""]

\* load_data.py:70-98
AssembleFact(df, d, pmap) ==
    LET date_id    == map(Column(df, "order_date"), date_map(d))
        region_id  == map(Column(df, "region"), region_map(d))
        channel_id == map(Column(df, "channel"), channel_map(d))
        segment_id == map(Column(df, "customer_segment"), segment_map(d))
        pair(i)    == <<df[i].product_name, df[i].category>>
    IN  IF \/ ~can_astype_int(date_id)
           \/ ~can_astype_int(region_id)
           \/ ~can_astype_int(channel_id)
           \/ ~can_astype_int(segment_id)
        THEN [status |-> "error", error |-> ValueError, fact_sales |-> <<>>]
        ELSE IF \E i \in 1..Len(df) : pair(i) \notin DOMAIN pmap
        THEN [status |-> "error", error |-> KeyError, fact_sales |-> <<>>]
        ELSE [status |-> "ok", error |-> NoError,
              fact_sales |->
                [i \in 1..Len(df) |->
                    [order_id    |-> df[i].order_id,
                     date_id     |-> astype_int(date_id)[i],
                     region_id   |-> astype_int(region_id)[i],
                     channel_id  |-> astype_int(channel_id)[i],
                     segment_id  |-> astype_int(segment_id)[i],
                     product_id  |-> pmap[pair(i)],
                     net_revenue |-> df[i].net_revenue]]]

----------------------------------------------------------------------------
(* Input values.  Names are those of generate_data.py where it has them.    *)

West == <<87, 101, 115, 116>>   \* "West"
South == <<83, 111, 117, 116, 104>>   \* "South"
west_lower == <<119, 101, 115, 116>>   \* "west"
Online == <<79, 110, 108, 105, 110, 101>>   \* "Online"
Retail == <<82, 101, 116, 97, 105, 108>>   \* "Retail"
Consumer == <<67, 111, 110, 115, 117, 109, 101, 114>>   \* "Consumer"
Electronics == <<69, 108, 101, 99, 116, 114, 111, 110, 105, 99, 115>>   \* "Electronics"
Furniture == <<70, 117, 114, 110, 105, 116, 117, 114, 101>>   \* "Furniture"
Chair == <<67, 104, 97, 105, 114>>   \* "Chair"
Desk == <<68, 101, 115, 107>>   \* "Desk"

\* Order dates as they stand in the CSV; one lacks its leading zeros.
DateTexts ==
    { <<50, 48, 50, 51, 45, 48, 49, 45, 49, 53>>,   \* "2023-01-15"
      <<50, 48, 50, 52, 45, 48, 51, 45, 48, 55>>,   \* "2024-03-07"
      <<50, 48, 50, 52, 45, 51, 45, 55>>,   \* "2024-3-7"
      <<50, 48, 50, 52, 45, 48, 52, 45, 48, 49>>,   \* "2024-04-01"
      <<50, 48, 50, 53, 45, 48, 55, 45, 48, 52>>,   \* "2025-07-04"
      <<50, 48, 50, 52, 45, 48, 57, 45, 51, 48>>,   \* "2024-09-30"
      <<50, 48, 50, 51, 45, 49, 50, 45, 51, 49>> }   \* "2023-12-31"
D20240307 == <<50, 48, 50, 52, 45, 48, 51, 45, 48, 55>>
D20231231 == <<50, 48, 50, 51, 45, 49, 50, 45, 51, 49>>

SeqsUpTo(S, n) == UNION {[1..k -> S] : k \in 0..n}

\* generate_data.py:73,126: order ids count up from 100000.
Numbered(cells) ==
    [i \in 1..Len(cells) |-> [c \in DOMAIN cells[i] \cup {"order_id", "net_revenue"} |->
        IF c = "order_id" THEN 100000 + i - 1
        ELSE IF c = "net_revenue" THEN 10 * i
        ELSE cells[i][c]]]

BaseCells == [order_date |-> D20240307, region |-> West, channel |-> Online,
              customer_segment |-> Consumer, category |-> Furniture, product_name |-> Chair]

\* Records that differ in region and channel, missing values included.
RegionCells ==
    {[BaseCells EXCEPT !.region = r, !.channel = ch] :
        r \in {NaN, West, South, west_lower}, ch \in {NaN, Online}}

\* Records that differ in category and product.
ProductCells ==
    {[BaseCells EXCEPT !.category = c, !.product_name = p] :
        c \in {NaN, Electronics, Furniture}, p \in {Chair, Desk}}

\* Records that differ in customer segment.
SegmentCells == {[BaseCells EXCEPT !.customer_segment = s] : s \in {NaN, Consumer, Retail}}

\* Records that differ in order date.
DateCells == {[BaseCells EXCEPT !.order_date = d] : d \in DateTexts}

TransformInputs ==
    {Numbered(cells) : cells \in SeqsUpTo(RegionCells, MaxRecords)
                               \cup SeqsUpTo(ProductCells, MaxRecords)
                               \cup SeqsUpTo(SegmentCells, MaxRecords)
                               \cup SeqsUpTo(DateCells, MaxRecords)}

\* Raw files given to the loader: records with their own order ids, two of
\* them sharing one.
LoadPool ==
    { [order_id |-> 100000, order_date |-> D20240307, region |-> West, channel |-> Online,
       customer_segment |-> Consumer, category |-> Furniture, product_name |-> Chair,
       net_revenue |-> 10],
      [order_id |-> 100001, order_date |-> D20231231, region |-> South, channel |-> Retail,
       customer_segment |-> Consumer, category |-> Electronics, product_name |-> Chair,
       net_revenue |-> 20],
      [order_id |-> 100000, order_date |-> D20231231, region |-> NaN, channel |-> Online,
       customer_segment |-> Consumer, category |-> Furniture, product_name |-> Desk,
       net_revenue |-> 30],
      [order_id |-> 100001, order_date |-> D20240307, region |-> West, channel |-> Online,
       customer_segment |-> Consumer, category |-> Furniture, product_name |-> Desk,
       net_revenue |-> 40] }

LoadInputs == SeqsUpTo(LoadPool, MaxLoadRecords)

\* What generate_data.main writes: records without a missing value, their
\* order ids counting up from 100000.
GeneratedInputs ==
    {df \in LoadInputs :
        /\ df # <<>>
        /\ \A i \in 1..Len(df) :
              /\ df[i].order_id = 100000 + i - 1
              /\ \A c \in {"order_date", "region", "channel", "customer_segment",
                            "category", "product_name"} : ~isna(df[i][c])}

----------------------------------------------------------------------------
(* load_data.py: the warehouse.                                            *)

DropOrder == <<"fact_sales", "dim_product", "dim_category", "dim_customer_segment",
               "dim_channel", "dim_region", "dim_date">>
\* Mutant: fact_sales is written first.
InsertOrder_fact_first == <<"fact_sales", "dim_date", "dim_region", "dim_channel",
                            "dim_customer_segment", "dim_category", "dim_product">>

InsertOrder == <<"dim_date", "dim_region", "dim_channel", "dim_customer_segment",
                 "dim_category", "dim_product", "fact_sales">>
TableNames == Range(DropOrder)

Absent == [present |-> FALSE, rows |-> <<>>]
Empty  == [present |-> TRUE, rows |-> <<>>]

NoFile == [exists |-> FALSE, tables |-> [t \in TableNames |-> Absent]]

\* The primary key column of each table, as sql/schema.sql declares it.
PrimaryKey(t) ==
    CASE t = "fact_sales"           -> "order_id"
      [] t = "dim_product"          -> "product_id"
      [] t = "dim_category"         -> "category_id"
      [] t = "dim_customer_segment" -> "segment_id"
      [] t = "dim_channel"          -> "channel_id"
      [] t = "dim_region"           -> "region_id"
      [] t = "dim_date"             -> "date_id"

\* The frame load_to_sqlite writes into table t (load_data.py:129-135).
Frame(t, d, p, r) ==
    CASE t = "fact_sales"           -> r.fact_sales
      [] t = "dim_product"          -> p.dim_product
      [] t = "dim_category"         -> d.dim_category
      [] t = "dim_customer_segment" -> d.dim_segment
      [] t = "dim_channel"          -> d.dim_channel
      [] t = "dim_region"           -> d.dim_region
      [] t = "dim_date"             -> d.dim_date

\* Mutant: the DROP statement is left out.
DropTable_skipped(database, t) == database

\* DROP TABLE IF EXISTS t
DropTable(database, t) == [database EXCEPT !.tables[t] = Absent]

\* executescript(schema_sql): the seven CREATE TABLE statements, each of which
\* makes an empty table where there is none and leaves an existing one alone.
CreateTables(database) ==
    [database EXCEPT !.tables = [t \in TableNames |->
        IF database.tables[t].present THEN database.tables[t] ELSE Empty]]

\* Whether INSERTing frame into t keeps t's primary key unique.
KeepsPrimaryKey(database, t, frame) ==
    LET all == database.tables[t].rows \o frame
    IN  \A i, j \in 1..Len(all) : all[i][PrimaryKey(t)] = all[j][PrimaryKey(t)] => i = j

\* DataFrame.to_sql(t, connection, if_exists="append", index=False)
to_sql(database, t, frame) ==
    [database EXCEPT !.tables[t] = [present |-> TRUE, rows |-> database.tables[t].rows \o frame]]

----------------------------------------------------------------------------
(* dashboard/app.py: the query the dashboard reads the warehouse with.     *)

\* left JOIN right ON right.col = left.col, one row for every matching pair.
Join(left, right, col) ==
    LET RECURSIVE rows(_)
        rows(i) ==
            IF i > Len(left) THEN <<>>
            ELSE LET match == SelectSeq(right, LAMBDA r : r[col] = left[i][col])
                 IN  [k \in 1..Len(match) |-> left[i] @@ match[k]] \o rows(i + 1)
    IN  rows(1)

\* app.py:16-39, read with parse_dates=["order_date"] (app.py:45).
BASE_QUERY(database) ==
    LET T(t)   == database.tables[t].rows
        f      == T("fact_sales")
        fd     == Join(f, T("dim_date"), "date_id")
        fdr    == Join(fd, T("dim_region"), "region_id")
        fdrc   == Join(fdr, T("dim_channel"), "channel_id")
        fdrcs  == Join(fdrc, T("dim_customer_segment"), "segment_id")
        fdrcsp == Join(fdrcs, T("dim_product"), "product_id")
        joined == Join(fdrcsp, T("dim_category"), "category_id")
    IN  [i \in 1..Len(joined) |->
            [order_id         |-> joined[i].order_id,
             order_date       |-> to_datetime(joined[i].order_date),
             year             |-> joined[i].year,
             month            |-> joined[i].month,
             region           |-> joined[i].region_name,
             channel          |-> joined[i].channel_name,
             customer_segment |-> joined[i].segment_name,
             category         |-> joined[i].category_name,
             product_name     |-> joined[i].product_name,
             net_revenue      |-> joined[i].net_revenue]]

NotQueried == [state |-> "none", sales_df |-> <<>>, complete |-> FALSE]

\* app.py:42-46,103-106: the query raises sqlite3.OperationalError when a table
\* it names is missing; an empty result stops the run with a warning.
load_sales_data(database, ran_to_completion) ==
    IF \E t \in TableNames : ~database.tables[t].present
    THEN [state |-> "raised", sales_df |-> <<>>, complete |-> ran_to_completion]
    ELSE [state    |-> IF BASE_QUERY(database) = <<>> THEN "stopped" ELSE "shown",
          sales_df |-> BASE_QUERY(database),
          complete |-> ran_to_completion]

NoDims == [dim_date |-> <<>>, dim_region |-> <<>>, dim_channel |-> <<>>,
           dim_segment |-> <<>>, dim_category |-> <<>>]
NoProduct == [dim_product |-> <<>>, product_map |-> <<>>]
NoResult == [status |-> "none", error |-> NoError, fact_sales |-> <<>>]

----------------------------------------------------------------------------
(* load_data.main, step by step.                                           *)

\* load_data.py:144  sales_df = pd.read_csv(RAW_FILE)
ReadCsv ==
    /\ pc = "start"
    /\ raw' \in IF caller = "app" THEN GeneratedInputs ELSE LoadInputs
    /\ pc' = "dims"
    /\ UNCHANGED <<step, dims, product, result, db, committed, snapshot, loads>>
    /\ UNCHANGED <<log, complete, caller, dash>>

\* load_data.py:33-37
TDims ==
    /\ pc = "dims"
    /\ dims' = BuildDims(raw)
    /\ pc' = "product"
    /\ UNCHANGED <<raw, step, product, result, db, committed, snapshot, loads>>
    /\ UNCHANGED <<log, complete, caller, dash>>

\* load_data.py:39-68
TProduct ==
    /\ pc = "product"
    /\ LET built == BuildProduct(raw, dims)
       IN  IF built.raised \/ product_map_raises(raw, dims, built.dim_product)
           THEN /\ result' = [status |-> "error", error |-> ValueError, fact_sales |-> <<>>]
                /\ pc' = "raised"
                /\ UNCHANGED product
           ELSE /\ product' = [dim_product |-> built.dim_product,
                               product_map |-> product_map(raw, dims, built.dim_product)]
                /\ pc' = "fact"
                /\ UNCHANGED result
    /\ UNCHANGED <<raw, step, dims, db, committed, snapshot, loads>>
    /\ UNCHANGED <<log, complete, caller, dash>>

\* load_data.py:70-98
TFact ==
    /\ pc = "fact"
    /\ result' = AssembleFact(raw, dims, product.product_map)
    /\ pc' = IF result'.status = "ok" THEN "transformed" ELSE "raised"
    /\ UNCHANGED <<raw, step, dims, product, db, committed, snapshot, loads>>
    /\ UNCHANGED <<log, complete, caller, dash>>

\* load_data.py:110-125: sqlite3.connect creates sales.db when it is not there.
Connect ==
    /\ pc = "transformed"
    /\ snapshot' = committed
    /\ db' = [committed EXCEPT !.exists = TRUE]
    /\ committed' = db'
    /\ pc' = "drop"
    /\ step' = 1
    /\ log' = <<>>
    /\ complete' = FALSE
    /\ UNCHANGED <<raw, dims, product, result, loads, caller, dash>>

\* load_data.py:113-126: executescript runs each DROP outside any transaction,
\* so each one is committed as it is run.
Drop ==
    /\ pc = "drop"
    /\ db' = DropTable(db, DropOrder[step])
    /\ committed' = db'
    /\ IF step < Len(DropOrder)
       THEN step' = step + 1 /\ pc' = "drop"
       ELSE step' = 1 /\ pc' = "schema"
    /\ log' = Append(log, <<"drop", DropOrder[step]>>)
    /\ UNCHANGED <<raw, dims, product, result, snapshot, loads, complete, caller, dash>>

\* load_data.py:127
CreateSchema ==
    /\ pc = "schema"
    /\ db' = CreateTables(db)
    /\ committed' = db'
    /\ pc' = "insert"
    /\ step' = 1
    /\ log' = Append(log, <<"create", "schema">>)
    /\ UNCHANGED <<raw, dims, product, result, snapshot, loads, complete, caller, dash>>

\* load_data.py:129-135: each to_sql runs its INSERTs in a transaction of its
\* own, which it commits, or rolls back when an INSERT raises.
Insert ==
    /\ pc = "insert"
    /\ LET t     == InsertOrder[step]
           frame == Frame(t, dims, product, result)
       IN  IF KeepsPrimaryKey(db, t, frame)
           THEN /\ db' = to_sql(db, t, frame)
                /\ committed' = db'
                /\ log' = Append(log, <<"insert", t>>)
                /\ IF step < Len(InsertOrder)
                   THEN step' = step + 1 /\ pc' = "insert"
                   ELSE step' = 1 /\ pc' = "commit"
           ELSE /\ db' = committed
                /\ pc' = "failed"
                /\ UNCHANGED <<committed, step, log>>
    /\ UNCHANGED <<raw, dims, product, result, snapshot, loads, complete, caller, dash>>

\* load_data.py:125: the with block ends normally and commits.
Commit ==
    /\ pc = "commit"
    /\ committed' = db
    /\ pc' = "done"
    /\ complete' = TRUE
    /\ UNCHANGED <<raw, step, dims, product, result, db, snapshot, loads, log, caller, dash>>

\* A statement of load_to_sqlite raises sqlite3.Error (disk full, database
\* locked): the with block rolls back what is uncommitted and re-raises.
SqliteError ==
    /\ pc \in {"drop", "schema", "insert"}
    /\ db' = committed
    /\ pc' = "failed"
    /\ UNCHANGED <<raw, step, dims, product, result, committed, snapshot, loads>>
    /\ UNCHANGED <<log, complete, caller, dash>>

\* No program is running.
Idle == pc \in {"idle", "done", "failed", "raised"}

\* load_data.main is run from the command line (load_data.py:158).
RunAgain ==
    /\ Idle
    /\ loads < MaxLoads
    /\ loads' = loads + 1
    /\ caller' = "load_data"
    /\ dash' = NotQueried
    /\ pc' = "start"
    /\ step' = 1
    /\ raw' = <<>>
    /\ dims' = NoDims
    /\ product' = NoProduct
    /\ result' = NoResult
    /\ UNCHANGED <<db, committed, snapshot, log, complete>>

\* app.py:83-90: the dashboard finds no sales.db, writes the generated records
\* to RAW_FILE and runs load_data.main.  A load that raises ends the run at
\* st.stop() (app.py:94-101); one that returns reruns the script (app.py:93).
DashBuild ==
    /\ Idle
    /\ ~committed.exists
    /\ loads < MaxLoads
    /\ loads' = loads + 1
    /\ caller' = "app"
    /\ dash' = NotQueried
    /\ pc' = "start"
    /\ step' = 1
    /\ raw' = <<>>
    /\ dims' = NoDims
    /\ product' = NoProduct
    /\ result' = NoResult
    /\ UNCHANGED <<db, committed, snapshot, log, complete>>

\* app.py:83,103-106: the dashboard finds sales.db and queries it.
DashQuery ==
    /\ Idle
    /\ committed.exists
    /\ dash' = load_sales_data(committed, complete)
    /\ UNCHANGED <<raw, pc, step, dims, product, result, db, committed, snapshot, loads>>
    /\ UNCHANGED <<log, complete, caller>>

NoSeries == <<>>
NotRun == [ran |-> FALSE, rows |-> <<>>]
NoThreshold == [num |-> 0, den |-> 1]

InitEtl ==
    /\ raw = <<>>
    /\ pc = "idle"
    /\ step = 1
    /\ dims = NoDims
    /\ product = NoProduct
    /\ result = NoResult
    /\ db = NoFile
    /\ committed = NoFile
    /\ snapshot = NoFile
    /\ loads = 0
    /\ log = <<>>
    /\ complete = FALSE
    /\ caller = "load_data"
    /\ dash = NotQueried

DetIdle ==
    /\ monthly_df = NoSeries
    /\ threshold = NoThreshold
    /\ program = "load_data"
    /\ outliers = NotRun

Init == InitEtl /\ DetIdle

Next ==
    \/ ReadCsv /\ UNCHANGED detVars
    \/ TDims /\ UNCHANGED detVars
    \/ TProduct /\ UNCHANGED detVars
    \/ TFact /\ UNCHANGED detVars
    \/ Connect /\ UNCHANGED detVars
    \/ Drop /\ UNCHANGED detVars
    \/ CreateSchema /\ UNCHANGED detVars
    \/ Insert /\ UNCHANGED detVars
    \/ Commit /\ UNCHANGED detVars
    \/ SqliteError /\ UNCHANGED detVars
    \/ RunAgain /\ UNCHANGED detVars
    \/ DashBuild /\ UNCHANGED detVars
    \/ DashQuery /\ UNCHANGED detVars

Spec == Init /\ [][Next]_vars

\* transform_to_star_schema alone, over a wider set of raw record sets.
InitTransform ==
    /\ raw \in TransformInputs
    /\ pc = "dims"
    /\ step = 1
    /\ dims = NoDims
    /\ product = NoProduct
    /\ result = NoResult
    /\ db = NoFile
    /\ committed = NoFile
    /\ snapshot = NoFile
    /\ loads = 1
    /\ log = <<>>
    /\ complete = FALSE
    /\ caller = "load_data"
    /\ dash = NotQueried
    /\ DetIdle

NextTransform ==
    \/ TDims /\ UNCHANGED detVars
    \/ TProduct /\ UNCHANGED detVars
    \/ TFact /\ UNCHANGED detVars

SpecTransform == InitTransform /\ [][NextTransform]_vars

----------------------------------------------------------------------------
(* The outlier detectors.  Revenues are whole numbers and the arithmetic   *)
(* is exact: a mean is a fraction, and a z-score, which may be irrational, *)
(* is kept as dev * sqrt(count / ss).                                      *)

RECURSIVE SumSeq(_)
SumSeq(s) == IF s = <<>> THEN 0 ELSE s[1] + SumSeq(Tail(s))

\* Series.mean(): sum / count, as the fraction num / den.
mean(s) == [num |-> SumSeq(s), den |-> Len(s)]

\* Mutant: Series.std() with its default ddof=1, the sample deviation.
std_sample(s, ddof) ==
    LET m  == [num |-> SumSeq(s), den |-> Len(s)]
        ss == SumSeq([i \in 1..Len(s) |-> (m.den * s[i] - m.num) * (m.den * s[i] - m.num)])
    IN  [ss |-> ss, count |-> Len(s) - 1, n |-> Len(s)]

\* Series.std(ddof): sqrt(sum((x - mean)^2) / (count - ddof)).  With
\* dev(x) = count * (x - mean), a whole number, std is
\* sqrt(ss / count^2 / (count - ddof)) for ss = sum(dev^2).
std(s, ddof) ==
    LET m  == mean(s)
        ss == SumSeq([i \in 1..Len(s) |-> (m.den * s[i] - m.num) * (m.den * s[i] - m.num)])
    IN  [ss |-> ss, count |-> Len(s) - ddof, n |-> Len(s)]

\* Mutant: the zero guard is missing.
std_is_zero_unguarded(sd) == FALSE

\* std_value == 0 (of an empty series std is NaN, which is not 0)
std_is_zero(sd) == sd.n > 0 /\ sd.ss = 0

Zero == [dev |-> 0, count |-> 1, ss |-> 1]

\* (x - mean_value) / std_value
z_of(x, m, sd) == [dev |-> m.den * x - m.num, count |-> sd.count, ss |-> sd.ss]

\* Mutant: z_score.abs() > threshold.
abs_gt(z, t) ==
    \/ t.num < 0
    \/ z.dev * z.dev * z.count * t.den * t.den > t.num * t.num * z.ss

\* z_score.abs() >= threshold, for threshold = num / den with den > 0
abs_ge(z, t) ==
    \/ t.num <= 0
    \/ z.dev * z.dev * z.count * t.den * t.den >= t.num * t.num * z.ss

\* Mutant: ascending=True.
ZLess_ascending(a, b) == a.dev > b.dev

\* z_score order within one frame, whose rows share count and ss.
ZLess(a, b) == a.dev < b.dev

\* sort_values("z_score", ascending=False) with the default, unstable sort:
\* every order of the rows that does not put a smaller z-score first.
RECURSIVE Descending(_)
Descending(rows) ==
    IF rows = {} THEN {<<>>}
    ELSE LET top == {r \in rows : \A q \in rows : ~ZLess(r.z_score, q.z_score)}
         IN  UNION {{<<r>> \o rest : rest \in Descending(rows \ {r})} : r \in top}

Flagged(frame, t) == {frame[i] : i \in {j \in 1..Len(frame) : abs_ge(frame[j].z_score, t)}}

\* outlier_df = monthly_df.copy() with its z_score column
WithZ(df, z) ==
    [i \in 1..Len(df) |->
        [period |-> df[i].period, net_revenue |-> df[i].net_revenue, z_score |-> z[i]]]

\* analyze_sales.py:86-97
detect_monthly_outliers(df, t) ==
    LET revenue    == Column(df, "net_revenue")
        mean_value == mean(revenue)
        std_value  == std(revenue, 0)
        z_score    == [i \in 1..Len(df) |->
                         IF std_is_zero(std_value) THEN Zero
                         ELSE z_of(revenue[i], mean_value, std_value)]
    IN  Descending(Flagged(WithZ(df, z_score), t))

\* app.py:49-56
detect_outlier_months(df, t) ==
    LET revenue   == Column(df, "net_revenue")
        std_value == std(revenue, 0)
        z_score   == [i \in 1..Len(df) |->
                        IF std_is_zero(std_value) THEN Zero
                        ELSE z_of(revenue[i], mean(revenue), std_value)]
    IN  Descending(Flagged(WithZ(df, z_score), t))

Revenues == {98, 100, 102, 500}

\* A monthly series in period order, as MONTHLY_QUERY returns it.
Monthly(values) == [i \in 1..Len(values) |-> [period |-> i, net_revenue |-> values[i]]]

Thresholds == {[num |-> -1, den |-> 1], [num |-> 0, den |-> 1], [num |-> 1, den |-> 2],
               [num |-> 1, den |-> 1], [num |-> 3, den |-> 2], [num |-> 2, den |-> 1]}

\* analyze_sales.py:73
DetectMonthlyOutliers ==
    /\ program = "analyze_sales"
    /\ ~outliers.ran
    /\ \E rows \in detect_monthly_outliers(monthly_df, threshold) :
          outliers' = [ran |-> TRUE, rows |-> rows]
    /\ UNCHANGED <<monthly_df, threshold, program>>

\* app.py:90
DetectOutlierMonths ==
    /\ program = "app"
    /\ ~outliers.ran
    /\ \E rows \in detect_outlier_months(monthly_df, threshold) :
          outliers' = [ran |-> TRUE, rows |-> rows]
    /\ UNCHANGED <<monthly_df, threshold, program>>

InitDetect ==
    /\ InitEtl
    /\ monthly_df \in {Monthly(v) : v \in SeqsUpTo(Revenues, MaxMonths)}
    /\ threshold \in Thresholds
    /\ program \in {"analyze_sales", "app"}
    /\ outliers = NotRun

NextDetect ==
    \/ DetectMonthlyOutliers /\ UNCHANGED etlVars
    \/ DetectOutlierMonths /\ UNCHANGED etlVars

SpecDetect == InitDetect /\ [][NextDetect]_vars

----------------------------------------------------------------------------
(* Properties.                                                             *)

Keys(frame, col) == {frame[i][col] : i \in 1..Len(frame)}
Cells(df, col) == {df[i][col] : i \in 1..Len(df)}
Finished == pc \in {"transformed", "raised"}

\* C1: a load that fails partway leaves the committed warehouse exactly as it
\* was before the load started: no dropped table stays dropped and no part of
\* the new tables stays inserted.
C1_FailedLoadRestoresWarehouse ==
    pc = "failed" => committed.tables = snapshot.tables

\* C2: whenever transform_to_star_schema returns, every foreign key of every
\* fact row is the key of a row of its dimension, and every dim_product row's
\* category_id is the key of a dim_category row.
C2_ReferentialClosure ==
    pc = "transformed" =>
        /\ \A i \in 1..Len(result.fact_sales) :
              LET f == result.fact_sales[i]
              IN  /\ f.date_id \in Keys(dims.dim_date, "date_id")
                  /\ f.region_id \in Keys(dims.dim_region, "region_id")
                  /\ f.channel_id \in Keys(dims.dim_channel, "channel_id")
                  /\ f.segment_id \in Keys(dims.dim_segment, "segment_id")
                  /\ f.product_id \in Keys(product.dim_product, "product_id")
        /\ \A j \in 1..Len(product.dim_product) :
              product.dim_product[j].category_id \in Keys(dims.dim_category, "category_id")

C2_Witness ==
    /\ pc = "transformed"
    /\ Len(result.fact_sales) = 3
    /\ Cardinality(Keys(result.fact_sales, "product_id")) = 3
    /\ Cardinality(Keys(product.dim_product, "category_id")) = 2

\* A record whose key has no row in its dimension: a missing region, channel,
\* segment or category, or an order date not written as the dimension writes it.
Unresolvable(df) ==
    \E i \in 1..Len(df) :
        \/ isna(df[i].region)
        \/ isna(df[i].channel)
        \/ isna(df[i].customer_segment)
        \/ isna(df[i].category)
        \/ df[i].order_date # strftime_Y_m_d(to_datetime(df[i].order_date))

IsDimensionOf(dim, id_col, name_col, source) ==
    LET distinct == Range(source) \ {NaN}
    IN  /\ Len(dim) = Cardinality(distinct)
        /\ Keys(dim, name_col) = distinct
        /\ \A i \in 1..Len(dim) : dim[i][id_col] = i
        /\ \A i \in 1..(Len(dim) - 1) : StrLess(dim[i][name_col], dim[i + 1][name_col])

\* C4: build_dimension returns one row per distinct non-missing value, the
\* values ascending in case-sensitive order without repeats, the keys 1..N
\* in row order; an empty or all-missing column gives no row.
C4_DenseSortedDimension ==
    pc # "dims" /\ pc # "start" =>
        /\ IsDimensionOf(dims.dim_region, "region_id", "region_name", Column(raw, "region"))
        /\ IsDimensionOf(dims.dim_channel, "channel_id", "channel_name", Column(raw, "channel"))
        /\ IsDimensionOf(dims.dim_segment, "segment_id", "segment_name",
                         Column(raw, "customer_segment"))
        /\ IsDimensionOf(dims.dim_category, "category_id", "category_name",
                         Column(raw, "category"))
        /\ (\A i \in 1..Len(raw) : isna(raw[i].region)) => dims.dim_region = <<>>

C4_Witness ==
    /\ pc = "product"
    /\ Len(raw) = 4
    /\ Cells(raw, "region") = {NaN, West, west_lower}
    /\ raw[1].region = west_lower
    /\ raw[2].region = NaN
    /\ Len(dims.dim_region) = 2
    /\ dims.dim_region[1].region_name = West
    /\ dims.dim_region[2].region_id = 2

CategoryNameOf(category_id) ==
    LET j == CHOOSE k \in 1..Len(dims.dim_category) :
                 dims.dim_category[k].category_id = category_id
    IN  dims.dim_category[j].category_name

\* C5: dim_product has one row per distinct (product_name, category) pair,
\* so one name under two categories has two rows; product_ids are 1..N in
\* ascending (category, product_name) order; product_map sends each literal
\* pair to the product_id of the row of that name and that category's key.
C5_CompositeProductKey ==
    pc = "fact" =>
        LET dp    == product.dim_product
            pairs == {<<raw[i].product_name, raw[i].category>> : i \in 1..Len(raw)}
            row(i) == <<dp[i].product_name, CategoryNameOf(dp[i].category_id)>>
        IN  /\ Len(dp) = Cardinality(pairs)
            /\ {row(i) : i \in 1..Len(dp)} = pairs
            /\ \A i \in 1..Len(dp) : dp[i].product_id = i
            /\ \A i \in 1..(Len(dp) - 1) :
                  \/ StrLess(row(i)[2], row(i + 1)[2])
                  \/ row(i)[2] = row(i + 1)[2] /\ StrLess(row(i)[1], row(i + 1)[1])
            /\ DOMAIN product.product_map = pairs
            /\ \A pr \in pairs :
                  \E i \in 1..Len(dp) :
                      /\ product.product_map[pr] = dp[i].product_id
                      /\ dp[i].product_name = pr[1]
                      /\ CategoryNameOf(dp[i].category_id) = pr[2]

\* The example of the specification: Chair under Furniture twice and under
\* Electronics once.
C5_Witness ==
    /\ pc = "fact"
    /\ Len(raw) = 3
    /\ \A i \in 1..3 : raw[i].product_name = Chair
    /\ raw[1].category = Furniture /\ raw[2].category = Furniture
    /\ raw[3].category = Electronics
    /\ Len(product.dim_product) = 2
    /\ product.product_map[<<Chair, Electronics>>] = 1
    /\ product.product_map[<<Chair, Furniture>>] = 2

QuarterOf(month) == CHOOSE q \in 1..4 : 3 * (q - 1) < month /\ month <= 3 * q

\* C6: create_dim_date returns one row per distinct calendar date, ascending,
\* with date_id = year*10000 + month*100 + day of the row's own date and
\* quarter = "Q" then ceil(month/3).
C6_DateKeyFromDate ==
    pc # "dims" /\ pc # "start" =>
        LET dd    == dims.dim_date
            dates == {to_datetime(raw[i].order_date) : i \in 1..Len(raw)}
        IN  /\ Len(dd) = Cardinality(dates)
            /\ Keys(dd, "date_id") = {t.year * 10000 + t.month * 100 + t.day : t \in dates}
            /\ \A i \in 1..(Len(dd) - 1) : dd[i].date_id < dd[i + 1].date_id
            /\ \A i \in 1..Len(dd) :
                  \E t \in dates :
                      /\ dd[i].date_id = t.year * 10000 + t.month * 100 + t.day
                      /\ dd[i].year = t.year
                      /\ dd[i].month = t.month
                      /\ dd[i].quarter = <<81, 48 + QuarterOf(t.month)>>

C6_Witness ==
    /\ pc = "product"
    /\ Len(raw) = 3
    /\ raw[1].order_date = D20231231
    /\ raw[2].order_date = <<50, 48, 50, 52, 45, 51, 45, 55>>
    /\ raw[3].order_date = D20240307
    /\ Len(dims.dim_date) = 2
    /\ dims.dim_date[2].date_id = 20240307
    /\ dims.dim_date[1].date_id = 20231231
    /\ dims.dim_date[1].quarter = <<81, 52>>

----------------------------------------------------------------------------
(* Properties of the detectors.                                            *)

Revenue == Column(monthly_df, "net_revenue")
Count == Len(monthly_df)
Total == SumSeq(Revenue)
\* Count^2 times the population variance: Count * sum(x^2) - sum(x)^2.
ScaledVariance == Count * SumSeq([i \in 1..Count |-> Revenue[i] * Revenue[i]]) - Total * Total
\* |x - mean| / population std >= threshold, without the division.
DeviatesBy(x, t) ==
    \/ t.num <= 0
    \/ (Count * x - Total) * (Count * x - Total) * t.den * t.den
          >= t.num * t.num * ScaledVariance
ReturnedPeriods == {outliers.rows[i].period : i \in 1..Len(outliers.rows)}

\* C7: with a non-zero population standard deviation, each detector returns a
\* month if and only if |revenue - mean| / std >= threshold, the boundary
\* included; so the two detectors return the same months.
C7_FlaggedIffAtLeastThreshold ==
    (outliers.ran /\ ScaledVariance # 0) =>
        ReturnedPeriods = {i \in 1..Count : DeviatesBy(Revenue[i], threshold)}

C7_Witness ==
    /\ outliers.ran
    /\ program = "app"
    /\ ScaledVariance # 0
    /\ threshold = [num |-> 2, den |-> 1]
    /\ Count = 5
    /\ \E i \in 1..Count :
          /\ (Count * Revenue[i] - Total) * (Count * Revenue[i] - Total)
                = 4 * ScaledVariance
          /\ i \in ReturnedPeriods

\* C8: when the population standard deviation is zero, every z-score is 0,
\* computed without a division by zero, and no month is returned for a
\* threshold above 0.
C8_ZeroDeviationFlagsNothing ==
    (outliers.ran /\ Count > 0 /\ ScaledVariance = 0) =>
        /\ \A i \in 1..Len(outliers.rows) :
              outliers.rows[i].z_score.dev = 0 /\ outliers.rows[i].z_score.ss # 0
        /\ threshold.num > 0 => outliers.rows = <<>>

C8_Witness ==
    /\ outliers.ran
    /\ Revenue = <<100, 100, 100, 100>>
    /\ threshold = [num |-> 2, den |-> 1]
    /\ outliers.rows = <<>>

SpecExample == Monthly(<<100, 102, 98, 500>>)

\* C9 as stated: for [100, 102, 98, 500] at threshold 2.0 the detector returns
\* the month of 500 first and none of the other three.
C9_Flags500AtTwo ==
    (outliers.ran /\ monthly_df = SpecExample /\ threshold = [num |-> 2, den |-> 1]) =>
        /\ Len(outliers.rows) = 1
        /\ outliers.rows[1].net_revenue = 500

\* C9 amended: for [100, 102, 98, 500] the month of 500 has z-score sqrt(3),
\* below 2.0, so at threshold 2.0 the detector returns no month; at threshold
\* 1.5 it returns the month of 500 and none of the other three.
C9_Flags500AtOneAndAHalf ==
    (outliers.ran /\ monthly_df = SpecExample) =>
        /\ threshold = [num |-> 2, den |-> 1] => outliers.rows = <<>>
        /\ threshold = [num |-> 3, den |-> 2] =>
              /\ Len(outliers.rows) = 1
              /\ outliers.rows[1].period = 4
              /\ outliers.rows[1].net_revenue = 500

C9_Witness ==
    /\ outliers.ran
    /\ program = "analyze_sales"
    /\ monthly_df = SpecExample
    /\ threshold = [num |-> 2, den |-> 1]
    /\ outliers.rows = <<>>

\* C10: the returned months are in descending z-score order, whatever their
\* period order; each is a row of the input series; the input series is left
\* as it was.
C10_DescendingRowsOfInput ==
    /\ [](outliers.ran =>
            /\ \A i \in 1..(Len(outliers.rows) - 1) :
                  /\ outliers.rows[i].z_score.dev >= outliers.rows[i + 1].z_score.dev
                  /\ outliers.rows[i].net_revenue >= outliers.rows[i + 1].net_revenue
            /\ \A i \in 1..Len(outliers.rows) :
                  \E j \in 1..Count :
                      /\ monthly_df[j].period = outliers.rows[i].period
                      /\ monthly_df[j].net_revenue = outliers.rows[i].net_revenue)
    /\ [][monthly_df' = monthly_df]_vars

C10_Witness ==
    /\ outliers.ran
    /\ Revenue = <<98, 100, 100, 100, 500>>
    /\ threshold = [num |-> 1, den |-> 2]
    /\ Len(outliers.rows) = 2
    /\ outliers.rows[1].period = 5
    /\ outliers.rows[2].period = 1

\* The tables a load that built d, p and r leaves behind.
BuildOf(d, p, r) ==
    [t \in TableNames |-> [present |-> TRUE, rows |-> Frame(t, d, p, r)]]

\* C11: after every load that ran to completion, whatever loads came before
\* it, each table of the committed warehouse holds exactly the rows the
\* current build made for it, and fact_sales has one row per raw record.
C11_WarehouseIsCurrentBuild ==
    pc = "done" =>
        /\ committed.tables = BuildOf(dims, product, result)
        /\ Len(committed.tables["fact_sales"].rows) = Len(raw)

\* A load of two records completes on a warehouse an earlier load left
\* half-built, with dates in dim_date that the current build does not have.
C11_Witness ==
    /\ pc = "done"
    /\ loads = 2
    /\ Len(raw) = 2
    /\ snapshot.tables["fact_sales"].rows = <<>>
    /\ snapshot.tables["dim_date"].rows # <<>>
    /\ \E i \in 1..Len(snapshot.tables["dim_date"].rows) :
          snapshot.tables["dim_date"].rows[i].date_id
              \notin Keys(committed.tables["dim_date"].rows, "date_id")

Dimensions == TableNames \ {"fact_sales"}

\* The tables whose keys the rows of t carry (load_data.py:41-49, 70-96).
Parents(t) ==
    CASE t = "fact_sales"  -> {"dim_date", "dim_region", "dim_channel",
                               "dim_customer_segment", "dim_product"}
      [] t = "dim_product" -> {"dim_category"}
      [] OTHER             -> {}

\* Statement b has run in the current load only after statement a.
RunsAfter(b, a) ==
    \A j \in 1..Len(log) : log[j] = b => \E i \in 1..(j - 1) : log[i] = a

\* C12: in every load fact_sales is dropped before any dimension table, the
\* schema is created only after all seven drops and no drop follows it, no
\* table is written before the schema is created, every dimension table is
\* written before fact_sales and dim_category before dim_product; and no
\* table ever holds a row while a table its rows refer to is empty or missing.
C12_DropsThenSchemaThenParentsFirst ==
    /\ \A t \in Dimensions : RunsAfter(<<"drop", t>>, <<"drop", "fact_sales">>)
    /\ \A t \in TableNames : RunsAfter(<<"create", "schema">>, <<"drop", t>>)
    /\ \A i, j \in 1..Len(log) : log[i][1] = "create" /\ log[j][1] = "drop" => j < i
    /\ \A t \in TableNames : RunsAfter(<<"insert", t>>, <<"create", "schema">>)
    /\ \A t \in Dimensions : RunsAfter(<<"insert", "fact_sales">>, <<"insert", t>>)
    /\ RunsAfter(<<"insert", "dim_product">>, <<"insert", "dim_category">>)
    /\ \A t \in TableNames : \A parent \in Parents(t) :
          db.tables[t].rows # <<>> =>
              db.tables[parent].present /\ db.tables[parent].rows # <<>>

\* A load of two records has run its seven drops, the schema and its seven
\* inserts, and fact_sales holds rows.
C12_Witness ==
    /\ pc = "done"
    /\ Len(log) = Len(DropOrder) + 1 + Len(InsertOrder)
    /\ Len(db.tables["fact_sales"].rows) = 2

\* The row of the dashboard's query that a raw record should come back as.
RoundTrip(record) ==
    [order_id         |-> record.order_id,
     order_date       |-> to_datetime(record.order_date),
     region           |-> record.region,
     channel          |-> record.channel,
     customer_segment |-> record.customer_segment,
     category         |-> record.category,
     product_name     |-> record.product_name,
     net_revenue      |-> record.net_revenue]

\* The columns of a query row that RoundTrip gives.
Natural(row) ==
    [c \in {"order_id", "order_date", "region", "channel", "customer_segment",
            "category", "product_name", "net_revenue"} |-> row[c]]

\* C13: when the build of a raw record set has succeeded, the join of
\* fact_sales to its six dimensions has exactly one row per raw record, and
\* that row carries the record's order_id, net revenue, order date, region,
\* channel, customer segment, category and product name.
C13_JoinGivesBackRawRecords ==
    (pc = "done" /\ dash.state # "none") =>
        /\ dash.state # "raised"
        /\ Len(dash.sales_df) = Len(raw)
        /\ \A i \in 1..Len(raw) :
              \E j \in 1..Len(dash.sales_df) :
                  /\ Natural(dash.sales_df[j]) = RoundTrip(raw[i])
                  /\ \A k \in 1..Len(dash.sales_df) :
                        dash.sales_df[k].order_id = raw[i].order_id => k = j

\* The dashboard has queried a warehouse built from two records that share a
\* product name under different categories, regions, channels and dates.
C13_Witness ==
    /\ pc = "done"
    /\ dash.state = "shown"
    /\ Len(raw) = 2
    /\ raw[1].product_name = raw[2].product_name
    /\ raw[1].category # raw[2].category
    /\ raw[1].region # raw[2].region
    /\ raw[1].channel # raw[2].channel
    /\ raw[1].order_date # raw[2].order_date

\* C14: the dashboard starts the generate-then-load build only when sales.db
\* does not exist, and when it queries sales.db after a build it started
\* itself, that build ran to completion: a failed build leaves no warehouse
\* behind that a later dashboard run queries.
C14_QueriesOnlyCompletedBuild ==
    /\ (caller = "app" /\ pc = "start") => ~committed.exists
    /\ (caller = "app" /\ dash.state # "none") => dash.complete
====
